---- MODULE Spec2Model ----
(***************************************************************************)
(* Model of the live speaking session of src/services/geminiService.ts     *)
(* (startLiveSpeakingSession): acquisition of microphone, audio contexts   *)
(* and remote connection, the onmessage / onerror / onclose handlers, the  *)
(* playback scheduling of decoded audio, the running turn transcripts, and *)
(* the close() of the returned handle.                                     *)
(*                                                                         *)
(* Scheduling: the program runs on one JavaScript event loop.  A handler   *)
(* runs to completion as one task; the only suspension point inside a      *)
(* handler is  `await decodeAudioData(...)` (line 260), whose promise is   *)
(* settled when it is awaited (decodeAudioData has no await of its own),   *)
(* so the continuation is a microtask: it runs before any other task       *)
(* (message, 'ended' event, close() call, clock advance).  The variable    *)
(* pending is TRUE exactly while such a continuation is queued.            *)
(*                                                                         *)
(* Spec is the session as the service implements it, its close() called by *)
(* whoever holds the handle.  AppSpec is the session driven by its caller  *)
(* (SpeakingInterface of src/unnamed/part_000: startSpeaking, stopSpeaking,*)
(* unmount) with the microphone capture callback, without inbound          *)
(* messages.  CodecSpec applies createBlob and decodeAudioData to a sample.*)
(***************************************************************************)
EXTENDS Integers, Sequences, FiniteSets, TLC

\* ------------------------------------------------------------------ bounds
MaxMsgs == 2        \* inbound server messages delivered
MaxClock == 2       \* largest value of outputAudioContext.currentTime
MaxChunks == 2      \* chunks the capture callback of a session is called with
MaxSessions == 2    \* sessions the caller starts, one after the other
Sub == 2            \* sample values are the multiples of 1 / (Scale * Sub) in [-1, 1]

\* ------------------------------------------------------------------ program constants
Scale == 32768          \* data[i] * 32768, dataInt16[i] / 32768.0
Int16Modulus == 65536   \* an Int16Array element holds its value modulo 2^16

\* ------------------------------------------------------------------ inputs
NoText == "<absent>"   \* serverContent.inputTranscription / outputTranscription absent
\* What the server sends is drawn from fixed sequences, by position: the text
\* of its k-th input and of its k-th output transcript fragment, and the
\* duration of the k-th audio payload that decodes (the handlers branch on
\* none of these values).
InFrags == <<"Hel", "lo ", "the", "re ">>
OutFrags == <<"Hi ", "Tom", "my ", "ok ">>
Durations == <<1, 2, 1, 2>>
NoAudio == 0           \* modelTurn.parts[0].inlineData.data absent (falsy)
BadAudio == -1         \* payload whose decode throws (odd byte length for Int16Array)

\* LiveServerMessage: every field of serverContent is optional and independent.
\* inF and outF are the texts of the next input and output fragment, dur the
\* duration of the next audio payload that decodes.
Messages(inF, outF, dur) ==
    [inputTranscription : {inF, NoText},
     audio : {NoAudio, BadAudio, dur},
     outputTranscription : {outF, NoText},
     turnComplete : BOOLEAN,
     interrupted : BOOLEAN]

NoMsg ==
    [inputTranscription |-> NoText, audio |-> NoAudio, outputTranscription |-> NoText,
     turnComplete |-> FALSE, interrupted |-> FALSE]

VARIABLES
    phase,                      \* startLiveSpeakingSession: awaitMic, connecting, live, failed
    stream,                     \* MediaStream tracks: none, live, stopped
    inputAudioContext,          \* none, open, closed
    outputAudioContext,         \* none, open, closed
    scriptProcessor,            \* none, attached (onaudioprocess set), detached
    mediaStreamSource,          \* none, connected, disconnected
    conn,                       \* remote session: none, connecting, open, closing, closed
    errored,                    \* the connection has delivered its error event
    nextStartTime,
    clock,                      \* outputAudioContext.currentTime
    sources,                    \* the Set<AudioBufferSourceNode>, as indices into srcs
    srcs,                       \* every source created, in creation order
    prevEnd,                    \* <<start + duration>> of the latest source enqueued since
                                \* the session start or the last flush, else <<>>
    currentInputTranscription,
    currentOutputTranscription,
    turnInput,                  \* input fragments delivered in the turn of the latest message
    turnEnded,                  \* the latest message delivered carried turnComplete
    nIn,                        \* input transcript fragments delivered
    nOut,                       \* output transcript fragments delivered
    pending,                    \* onmessage is suspended at the await of line 260
    lastMsg,                    \* the message of the onmessage call the latest step ran
                                \* (a part of), else NoMsg
    outcome,                    \* of the latest step, when it ran onmessage code:
                                \* await, done, decodeError, referenceError; else none
    calls,                      \* the callbacks the latest step invoked, in order
    cbLog,                      \* every callbacks.onError / onClose call so far, in order
    connectCalls,               \* calls of ai.live.connect
    \* how often each of these was called: "never", "once", "again" (twice or more)
    sessionCloseCalls,          \* session.close()
    trackStopCalls,             \* track.stop() on the microphone track
    inCtxCloseCalls,            \* inputAudioContext.close()
    outCtxCloseCalls,           \* outputAudioContext.close()
    closeCalls,                 \* the handle's close()
    msgCount,                   \* messages delivered
    \* the caller, SpeakingInterface
    liveSessionRef,             \* liveSessionRef.current: "null" or "handle"
    stopAsked,                  \* stopSpeaking or the unmount cleanup ran while
                                \* startSpeaking awaited startLiveSpeakingSession
    mounted,                    \* the component is mounted
    isRecording,                \* its isRecording state: the Stop button is rendered
    \* microphone capture
    produced,                   \* chunks onaudioprocess has been called with
    heldChunks,                 \* chunks whose sessionPromise.then callback has not run
    sentChunks,                 \* chunks passed to session.sendRealtimeInput, in order
    flushed,                    \* chunks sent by callbacks registered before the
                                \* session promise resolved
    \* the sessions this caller started before the current one
    earlier,                    \* in order of start; of each, what its closure still
                                \* holds and the events it has yet to deliver
    \* codec
    sample,                     \* a Float32Array element, in units of 1 / (Scale * Sub)
    wire,                       \* the base64 digits of the Blob's data, else <<>>
    decoded                     \* <<the channelData element decodeAudioData stored>>, in
                                \* the units of sample, else <<>>

resVars == <<stream, inputAudioContext, outputAudioContext, scriptProcessor, mediaStreamSource>>
schedVars == <<nextStartTime, sources, srcs, prevEnd>>
textVars == <<currentInputTranscription, currentOutputTranscription, turnInput, turnEnded,
              nIn, nOut>>
msgVars == <<pending, msgCount>>
callVars == <<connectCalls, sessionCloseCalls, trackStopCalls, inCtxCloseCalls,
              outCtxCloseCalls, closeCalls>>
callerVars == <<liveSessionRef, stopAsked, mounted, isRecording>>
captureVars == <<produced, heldChunks, sentChunks, flushed>>
codecVars == <<sample, wire, decoded>>
vars == <<phase, resVars, conn, errored, clock, schedVars, textVars, msgVars, lastMsg,
          outcome, calls, cbLog, callVars, callerVars, captureVars, earlier, codecVars>>

\* ------------------------------------------------------------------ helpers
\* One callback invocation: its name and its (up to two) string arguments.
Call(name, a, b) == [cb |-> name, a |-> a, b |-> b]
Names(cs) == [k \in DOMAIN cs |-> cs[k].cb]
Count(cs, name) == Cardinality({k \in DOMAIN cs : cs[k].cb = name})

\* A task (a remote event's handler, an 'ended' listener, an audio-process
\* callback, a call from the user interface, an update of currentTime) starts
\* only when no continuation of `await` (line 260) is queued.
TaskMayStartAnyTime == TRUE
TaskMayStart == ~pending

\* The caller's onClose callback: liveSessionRef.current = null
CallerOnClose == "null"

\* sessionPromise.then((session) => { session.sendRealtimeInput({ media: pcmBlob }) })
\* once the promise is resolved: chunk k is passed on after those sent so far.
ThenSendFirst(sent, k) == <<k>> \o sent
ThenSend(sent, k) == Append(sent, k)

\* The callbacks registered on the session promise run in registration order.
RECURSIVE SendAll(_, _)
SendAll(sent, held) ==
    IF held = <<>> THEN sent ELSE SendAll(ThenSend(sent, Head(held)), Tail(held))

\* One more call of something called c times so far.
Again(c) == IF c = "never" THEN "once" ELSE "again"

\* Math.max(nextStartTime, outputAudioContext.currentTime)
StartTimeNoMax(nst, now) == now
StartTime(nst, now) == IF nst > now THEN nst ELSE now

\* nextStartTime = nextStartTime + audioBuffer.duration
EndTimeNoAdvance(start, dur) == start
EndTimeDurationOnly(start, dur) == dur
EndTime(start, dur) == start + dur

\* nextStartTime = 0 of the interruption branch
InterruptedStartTimeStale == nextStartTime
InterruptedStartTime == 0

\* the catch block: onError then onClose
CatchCallbacksNoClose(log) == Append(log, "onError")
CatchCallbacks(log) == log \o <<"onError", "onClose">>

\* currentXTranscription += fragment.text
AppendFragmentFront(running, frag) == IF frag = NoText THEN running ELSE frag \o running
AppendFragment(running, frag) == IF frag = NoText THEN running ELSE running \o frag

\* for (const source of sources.values()) { source.stop(); sources.delete(source); }
StopAll(sr, ss) ==
    [i \in DOMAIN sr |-> IF i \in ss THEN [sr[i] EXCEPT !.st = "stopped"] ELSE sr[i]]

\* The calls that extended the onError / onClose log from old to new.
Emitted(old, new) == [k \in 1..(Len(new) - Len(old)) |-> Call(new[Len(old) + k], "", "")]

\* if (sources.size === 0) of the 'ended' listener
IdleAlways(ss) == TRUE
Idle(ss) == ss = {}

\* A source whose 'ended' listener has run plays no further part.
Gone == [start |-> 0, dur |-> 0, st |-> "ended", ended |-> TRUE]

\* ------------------------------------------------------------------ Init
\* startSpeaking has called startLiveSpeakingSession: its closure variables
\* are initialised and it awaits navigator.mediaDevices.getUserMedia.
SessionInit ==
    /\ phase = "awaitMic"
    /\ stream = "none"
    /\ inputAudioContext = "none"
    /\ outputAudioContext = "none"
    /\ scriptProcessor = "none"
    /\ mediaStreamSource = "none"
    /\ conn = "none"
    /\ errored = FALSE
    /\ nextStartTime = 0
    /\ clock = 0
    /\ sources = {}
    /\ srcs = <<>>
    /\ prevEnd = <<>>
    /\ currentInputTranscription = ""
    /\ currentOutputTranscription = ""
    /\ turnInput = ""
    /\ turnEnded = FALSE
    /\ nIn = 0
    /\ nOut = 0
    /\ pending = FALSE
    /\ lastMsg = NoMsg
    /\ outcome = "none"
    /\ calls = <<>>
    /\ cbLog = <<>>
    /\ connectCalls = 0
    /\ sessionCloseCalls = "never"
    /\ trackStopCalls = "never"
    /\ inCtxCloseCalls = "never"
    /\ outCtxCloseCalls = "never"
    /\ closeCalls = "never"
    /\ msgCount = 0
    /\ liveSessionRef = "null"
    /\ stopAsked = FALSE
    /\ mounted = TRUE
    /\ isRecording = FALSE
    /\ produced = 0
    /\ heldChunks = <<>>
    /\ sentChunks = <<>>
    /\ flushed = 0
    /\ earlier = <<>>

Init ==
    /\ SessionInit
    /\ sample = 0
    /\ wire = <<>>
    /\ decoded = <<>>

\* ------------------------------------------------------------------ start
\* getUserMedia resolves; both AudioContexts are created; ai.live.connect is called.
MicGranted ==
    /\ phase = "awaitMic"
    /\ phase' = "connecting"
    /\ stream' = "live"
    /\ inputAudioContext' = "open"
    /\ outputAudioContext' = "open"
    /\ conn' = "connecting"
    /\ connectCalls' = connectCalls + 1
    /\ outcome' = "none"
    /\ lastMsg' = NoMsg
    /\ calls' = <<>>
    /\ UNCHANGED <<scriptProcessor, mediaStreamSource, errored, clock, schedVars, textVars,
                   msgVars, cbLog, sessionCloseCalls, trackStopCalls, inCtxCloseCalls,
                   outCtxCloseCalls, closeCalls, callerVars, captureVars, earlier, codecVars>>

\* getUserMedia rejects (permission denied): control passes to the catch block,
\* which reports and rethrows.
MicDenied ==
    /\ phase = "awaitMic"
    /\ phase' = "failed"
    /\ cbLog' = CatchCallbacks(cbLog)
    /\ liveSessionRef' = CallerOnClose
    /\ isRecording' = FALSE
    /\ outcome' = "none"
    /\ lastMsg' = NoMsg
    /\ calls' = Emitted(cbLog, cbLog')
    /\ UNCHANGED <<resVars, conn, errored, clock, schedVars, textVars, msgVars, callVars,
                   stopAsked, mounted, captureVars, earlier, codecVars>>

\* The connection opens: onopen wires the microphone to the script processor,
\* sessionPromise resolves, the handle is returned and startSpeaking stores it.
ConnectOpened ==
    /\ phase = "connecting"
    /\ phase' = "live"
    /\ liveSessionRef' = "handle"
    /\ isRecording' = TRUE
    /\ conn' = "open"
    /\ mediaStreamSource' = "connected"
    /\ scriptProcessor' = "attached"
    /\ outcome' = "none"
    /\ lastMsg' = NoMsg
    /\ calls' = <<>>
    /\ UNCHANGED <<stream, inputAudioContext, outputAudioContext, errored, clock, schedVars,
                   textVars, msgVars, cbLog, callVars, stopAsked, mounted, captureVars,
                   earlier, codecVars>>

\* sessionPromise rejects: `await sessionPromise` throws into the catch block,
\* which reports and rethrows; nothing acquired before is touched.
ConnectFailed ==
    /\ phase = "connecting"
    /\ phase' = "failed"
    /\ conn' = "closed"
    /\ cbLog' = CatchCallbacks(cbLog)
    /\ liveSessionRef' = CallerOnClose
    /\ isRecording' = FALSE
    /\ outcome' = "none"
    /\ lastMsg' = NoMsg
    /\ calls' = Emitted(cbLog, cbLog')
    /\ UNCHANGED <<resVars, errored, clock, schedVars, textVars, msgVars, callVars,
                   stopAsked, mounted, captureVars, earlier, codecVars>>

\* ------------------------------------------------------------------ close()
\* The close() of the returned handle.  threw: session.close(), its first
\* statement, throws; nothing catches it, so the call ends there.
CloseHandle(threw) ==
    /\ phase = "live"
    /\ TaskMayStart
    /\ closeCalls' = Again(closeCalls)
    /\ sessionCloseCalls' = Again(sessionCloseCalls)
    /\ IF threw
       THEN UNCHANGED <<conn, resVars, trackStopCalls, inCtxCloseCalls, outCtxCloseCalls,
                        srcs, sources>>
       ELSE /\ conn' = IF conn = "open" THEN "closing" ELSE conn
            /\ IF stream # "none"
               THEN stream' = "stopped" /\ trackStopCalls' = Again(trackStopCalls)
               ELSE UNCHANGED <<stream, trackStopCalls>>
            /\ IF inputAudioContext # "none"
               THEN inputAudioContext' = "closed" /\ inCtxCloseCalls' = Again(inCtxCloseCalls)
               ELSE UNCHANGED <<inputAudioContext, inCtxCloseCalls>>
            /\ IF outputAudioContext # "none"
               THEN outputAudioContext' = "closed" /\ outCtxCloseCalls' = Again(outCtxCloseCalls)
               ELSE UNCHANGED <<outputAudioContext, outCtxCloseCalls>>
            /\ scriptProcessor' = IF scriptProcessor # "none" THEN "detached" ELSE scriptProcessor
            /\ mediaStreamSource' =
                   IF mediaStreamSource # "none" THEN "disconnected" ELSE mediaStreamSource
            /\ srcs' = StopAll(srcs, sources)
            /\ sources' = {}
    /\ outcome' = "none"
    /\ lastMsg' = NoMsg
    /\ calls' = <<>>
    /\ UNCHANGED <<phase, errored, clock, nextStartTime, prevEnd, textVars, msgVars, cbLog,
                   connectCalls, captureVars, earlier, codecVars>>

\* close() called by a holder of the handle; its release calls return normally.
Close == CloseHandle(FALSE) /\ UNCHANGED callerVars

\* ------------------------------------------------------------------ remote events
\* onerror
RemoteError ==
    /\ phase = "live"
    /\ conn = "open"
    /\ TaskMayStart
    /\ ~errored
    /\ errored' = TRUE
    /\ cbLog' = cbLog \o <<"onError", "onClose">>
    /\ liveSessionRef' = CallerOnClose
    /\ isRecording' = FALSE
    /\ outcome' = "none"
    /\ lastMsg' = NoMsg
    /\ calls' = Emitted(cbLog, cbLog')
    /\ UNCHANGED <<phase, resVars, conn, clock, schedVars, textVars, msgVars, callVars,
                   stopAsked, mounted, captureVars, earlier, codecVars>>

\* onclose: the connection has closed, on the remote side's initiative or as
\* the completion of session.close().
RemoteClose ==
    /\ phase = "live"
    /\ conn \in {"open", "closing"}
    /\ TaskMayStart
    /\ conn' = "closed"
    /\ cbLog' = Append(cbLog, "onClose")
    /\ liveSessionRef' = CallerOnClose
    /\ isRecording' = FALSE
    /\ outcome' = "none"
    /\ lastMsg' = NoMsg
    /\ calls' = Emitted(cbLog, cbLog')
    /\ UNCHANGED <<phase, resVars, errored, clock, schedVars, textVars, msgVars, callVars,
                   stopAsked, mounted, captureVars, earlier, codecVars>>

\* ------------------------------------------------------------------ onmessage
\* Lines 280-319: what follows the audio branch, from nextStartTime nst, in-flight
\* set ss, sources sr, latest end pe, input text inStr, after the calls cs.
AfterAudio(m, nst, ss, sr, pe, inStr, cs) ==
    LET hasOut == m.outputTranscription # NoText
        out1 == AppendFragment(currentOutputTranscription, m.outputTranscription)
        cs1 == IF hasOut THEN Append(cs, Call("onTranscriptionUpdate", inStr, out1)) ELSE cs
    IN  /\ currentOutputTranscription' = out1
        /\ pending' = FALSE
        /\ IF m.turnComplete
           THEN \* line 287 reads fullInputTranscript, which no scope declares:
                \* a ReferenceError ends the call here
                /\ outcome' = "referenceError"
                /\ nextStartTime' = nst
                /\ sources' = ss
                /\ srcs' = sr
                /\ prevEnd' = pe
                /\ calls' = cs1
           ELSE IF m.interrupted
           THEN /\ outcome' = "done"
                /\ srcs' = StopAll(sr, ss)
                /\ sources' = {}
                /\ nextStartTime' = InterruptedStartTime
                /\ prevEnd' = <<>>
                /\ calls' = Append(cs1, Call("onAIStopSpeaking", "", ""))
           ELSE /\ outcome' = "done"
                /\ nextStartTime' = nst
                /\ sources' = ss
                /\ srcs' = sr
                /\ prevEnd' = pe
                /\ calls' = cs1

\* A message is delivered: onmessage runs up to its first suspension point.
OnMessage(m) ==
    /\ phase = "live"
    /\ conn = "open"
    /\ TaskMayStart
    /\ msgCount < MaxMsgs
    /\ msgCount' = msgCount + 1
    /\ lastMsg' = m
    /\ LET hasIn == m.inputTranscription # NoText
           in1 == AppendFragment(currentInputTranscription, m.inputTranscription)
           cs1 == IF hasIn
                  THEN <<Call("onTranscriptionUpdate", in1, currentOutputTranscription)>>
                  ELSE <<>>
       IN  /\ currentInputTranscription' = in1
           /\ turnInput' = AppendFragment(IF turnEnded THEN "" ELSE turnInput,
                                          m.inputTranscription)
           /\ turnEnded' = m.turnComplete
           /\ nIn' = IF hasIn THEN nIn + 1 ELSE nIn
           /\ nOut' = IF m.outputTranscription # NoText THEN nOut + 1 ELSE nOut
           /\ IF m.audio = NoAudio
              THEN AfterAudio(m, nextStartTime, sources, srcs, prevEnd, in1, cs1)
              ELSE /\ calls' = Append(cs1, Call("onAIStartSpeaking", "", ""))
                   /\ nextStartTime' = StartTime(nextStartTime, clock)
                   /\ pending' = TRUE
                   /\ outcome' = "await"
                   /\ UNCHANGED <<sources, srcs, prevEnd, currentOutputTranscription>>
    /\ UNCHANGED <<phase, resVars, conn, errored, clock, cbLog, callVars, callerVars,
                   captureVars, earlier, codecVars>>

\* The continuation after `await decodeAudioData(...)`: the decode result is
\* delivered (or its exception rethrown), the source is created, started at
\* nextStartTime and registered, and the rest of the handler runs.
ResumeMessage ==
    /\ pending
    /\ lastMsg' = lastMsg
    /\ IF lastMsg.audio = BadAudio
       THEN /\ pending' = FALSE
            /\ outcome' = "decodeError"
            /\ calls' = <<>>
            /\ UNCHANGED <<schedVars, currentOutputTranscription>>
       ELSE LET id == Len(srcs) + 1
                end == EndTime(nextStartTime, lastMsg.audio)
                source == [start |-> nextStartTime, dur |-> lastMsg.audio,
                           st |-> "scheduled", ended |-> FALSE]
            IN  AfterAudio(lastMsg, end, sources \cup {id}, Append(srcs, source), <<end>>,
                           currentInputTranscription, <<>>)
    /\ UNCHANGED <<phase, resVars, conn, errored, clock, currentInputTranscription,
                   turnInput, turnEnded, nIn, nOut, msgCount, cbLog, callVars, callerVars,
                   captureVars, earlier, codecVars>>

\* ------------------------------------------------------------------ playback
\* The 'ended' listener of source i: the source played to its end, or was stopped.
SourceEnded(i) ==
    /\ TaskMayStart
    /\ i \in DOMAIN srcs
    /\ ~srcs[i].ended
    /\ \/ srcs[i].st = "scheduled" /\ clock >= srcs[i].start + srcs[i].dur
       \/ srcs[i].st = "stopped"
    /\ srcs' = [srcs EXCEPT ![i] = Gone]
    /\ sources' = sources \ {i}
    /\ calls' = IF Idle(sources') THEN <<Call("onAIStopSpeaking", "", "")>> ELSE <<>>
    /\ outcome' = "none"
    /\ lastMsg' = NoMsg
    /\ UNCHANGED <<phase, resVars, conn, errored, clock, nextStartTime, prevEnd, textVars,
                   msgVars, cbLog, callVars, callerVars, captureVars, earlier, codecVars>>

\* outputAudioContext.currentTime advances while the context is running.
Tick ==
    /\ TaskMayStart
    /\ outputAudioContext = "open"
    /\ clock < MaxClock
    /\ clock' = clock + 1
    /\ outcome' = "none"
    /\ lastMsg' = NoMsg
    /\ calls' = <<>>
    /\ UNCHANGED <<phase, resVars, conn, errored, schedVars, textVars, msgVars, cbLog,
                   callVars, callerVars, captureVars, earlier, codecVars>>

\* The messages the server may send next.
NextMessages == Messages(InFrags[nIn + 1], OutFrags[nOut + 1], Durations[Len(srcs) + 1])

Next ==
    \/ MicGranted
    \/ MicDenied
    \/ ConnectOpened
    \/ ConnectFailed
    \/ Close
    \/ RemoteError
    \/ RemoteClose
    \/ \E m \in NextMessages : OnMessage(m)
    \/ ResumeMessage
    \/ \E i \in 1..Len(srcs) : SourceEnded(i)
    \/ Tick

Spec == Init /\ [][Next]_vars

\* ------------------------------------------------------------------ the caller and the capture
\* onopen runs; the session promise is not resolved yet.
OnOpen ==
    /\ phase = "connecting"
    /\ phase' = "opened"
    /\ conn' = "open"
    /\ mediaStreamSource' = "connected"
    /\ scriptProcessor' = "attached"
    /\ outcome' = "none"
    /\ lastMsg' = NoMsg
    /\ calls' = <<>>
    /\ UNCHANGED <<stream, inputAudioContext, outputAudioContext, errored, clock, schedVars,
                   textVars, msgVars, cbLog, callVars, callerVars, captureVars, earlier, codecVars>>

\* The session promise resolves: `await sessionPromise` returns the handle,
\* the callbacks the capture registered meanwhile run, startSpeaking stores
\* the handle.
SessionResolved ==
    /\ phase = "opened"
    /\ phase' = "live"
    /\ sentChunks' = SendAll(sentChunks, heldChunks)
    /\ flushed' = flushed + Len(heldChunks)
    /\ heldChunks' = <<>>
    /\ liveSessionRef' = "handle"
    /\ isRecording' = TRUE
    /\ outcome' = "none"
    /\ lastMsg' = NoMsg
    /\ calls' = <<>>
    /\ UNCHANGED <<resVars, conn, errored, clock, schedVars, textVars, msgVars, cbLog,
                   callVars, stopAsked, mounted, produced, earlier, codecVars>>

\* scriptProcessor.onaudioprocess is called with the next chunk.
AudioProcess ==
    /\ TaskMayStart
    /\ scriptProcessor = "attached"
    /\ inputAudioContext = "open"
    /\ produced < MaxChunks
    /\ produced' = produced + 1
    /\ IF phase = "live"
       THEN sentChunks' = ThenSend(sentChunks, produced') /\ UNCHANGED heldChunks
       ELSE heldChunks' = Append(heldChunks, produced') /\ UNCHANGED sentChunks
    /\ outcome' = "none"
    /\ lastMsg' = NoMsg
    /\ calls' = <<>>
    /\ UNCHANGED <<phase, resVars, conn, errored, clock, schedVars, textVars, msgVars, cbLog,
                   callVars, callerVars, flushed, earlier, codecVars>>

\* A call of the caller that changes nothing of the session.
NoSessionChange ==
    /\ outcome' = "none"
    /\ lastMsg' = NoMsg
    /\ calls' = <<>>
    /\ UNCHANGED <<phase, resVars, conn, errored, clock, schedVars, textVars, msgVars, cbLog,
                   callVars, captureVars, earlier, codecVars>>

\* startSpeaking is suspended at `await startLiveSpeakingSession(...)`.
Starting == phase \in {"awaitMic", "connecting", "opened"}

\* stopSpeaking, the onClick of the Stop button (rendered while isRecording):
\* close the stored handle, if any, and forget it.  An exception of close()
\* leaves stopSpeaking at line 119.
StopSpeaking ==
    /\ mounted
    /\ isRecording
    /\ TaskMayStart
    /\ UNCHANGED mounted
    /\ IF liveSessionRef = "handle"
       THEN /\ \E threw \in BOOLEAN :
                  /\ CloseHandle(threw)
                  /\ liveSessionRef' = IF threw THEN liveSessionRef ELSE "null"
                  /\ isRecording' = IF threw THEN isRecording ELSE FALSE
            /\ UNCHANGED stopAsked
       ELSE /\ NoSessionChange
            /\ isRecording' = FALSE
            /\ stopAsked' = (stopAsked \/ Starting)
            /\ UNCHANGED liveSessionRef

\* The cleanup of the unmount effect: close the stored handle, if any.
Unmount ==
    /\ mounted
    /\ TaskMayStart
    /\ mounted' = FALSE
    /\ UNCHANGED <<liveSessionRef, isRecording>>
    /\ IF liveSessionRef = "handle"
       THEN /\ \E threw \in BOOLEAN : CloseHandle(threw)
            /\ UNCHANGED stopAsked
       ELSE /\ NoSessionChange
            /\ stopAsked' = (stopAsked \/ Starting)

\* ------------------------------------------------------------------ sessions in sequence
\* `let nextStartTime = 0`, `new Set()`, `let currentInputTranscription = ''`,
\* `let currentOutputTranscription = ''` are statements of the body of
\* startLiveSpeakingSession: every call makes its own.
ModuleLevel(kept, initial) == kept
PerCall(kept, initial) == initial

\* For the caller the session it started last is over: its start failed, or
\* close() has run to its end on it.
Over ==
    \/ phase = "failed"
    \/ phase = "live" /\ closeCalls # "never" /\ conn \in {"closing", "closed"}

\* What is left of the current session once it is over: its closure
\* variables, the close event of its connection when that is still to come,
\* and the 'ended' events of the sources close() stopped.
Leftover ==
    [conn |-> conn,
     toEnd |-> Cardinality({i \in DOMAIN srcs : ~srcs[i].ended}),
     nextStartTime |-> nextStartTime,
     sources |-> sources,
     currentInputTranscription |-> currentInputTranscription,
     currentOutputTranscription |-> currentOutputTranscription]

\* An earlier session that has delivered its last event: nothing refers to its
\* closure any more.
Collected ==
    [conn |-> "closed", toEnd |-> 0, nextStartTime |-> 0, sources |-> {},
     currentInputTranscription |-> "", currentOutputTranscription |-> ""]

\* The record r of an earlier session, after one of its events.
After(r) == IF r.conn = "closed" /\ r.toEnd = 0 THEN Collected ELSE r

\* startSpeaking, the onClick of the Start button (rendered while not
\* isRecording, enabled while nothing is loading), pressed again after the
\* previous session is over: startLiveSpeakingSession is called anew, up to
\* its await of getUserMedia.
StartSpeaking ==
    /\ mounted
    /\ ~isRecording
    /\ TaskMayStart
    /\ Over
    /\ Len(earlier) < MaxSessions - 1
    /\ earlier' = Append(earlier, Leftover)
    /\ phase' = "awaitMic"
    /\ stream' = "none"
    /\ inputAudioContext' = "none"
    /\ outputAudioContext' = "none"
    /\ scriptProcessor' = "none"
    /\ mediaStreamSource' = "none"
    /\ conn' = "none"
    /\ errored' = FALSE
    /\ nextStartTime' = PerCall(nextStartTime, 0)
    /\ sources' = PerCall(sources, {})
    /\ currentInputTranscription' = PerCall(currentInputTranscription, "")
    /\ currentOutputTranscription' = PerCall(currentOutputTranscription, "")
    /\ clock' = 0
    /\ srcs' = <<>>
    /\ prevEnd' = <<>>
    /\ turnInput' = ""
    /\ turnEnded' = FALSE
    /\ nIn' = 0
    /\ nOut' = 0
    /\ pending' = FALSE
    /\ lastMsg' = NoMsg
    /\ outcome' = "none"
    /\ calls' = <<>>
    /\ cbLog' = <<>>
    /\ connectCalls' = 0
    /\ sessionCloseCalls' = "never"
    /\ trackStopCalls' = "never"
    /\ inCtxCloseCalls' = "never"
    /\ outCtxCloseCalls' = "never"
    /\ closeCalls' = "never"
    /\ stopAsked' = FALSE
    /\ heldChunks' = <<>>
    /\ sentChunks' = <<>>
    /\ produced' = 0
    /\ flushed' = 0
    /\ UNCHANGED <<msgCount, liveSessionRef, mounted, isRecording, codecVars>>

\* A step that is an event of an earlier session leaves the current one alone.
CurrentSessionUntouched ==
    UNCHANGED <<phase, resVars, conn, errored, clock, schedVars, textVars, msgVars, cbLog,
                callVars, captureVars, codecVars>>

\* onclose of earlier session k: the close its close() asked for has completed;
\* its callbacks.onClose is the closure startSpeaking made for it.
EarlierClosed(k) ==
    /\ TaskMayStart
    /\ k \in DOMAIN earlier
    /\ earlier[k].conn = "closing"
    /\ earlier' = [earlier EXCEPT ![k] = After([@ EXCEPT !.conn = "closed"])]
    /\ liveSessionRef' = CallerOnClose
    /\ isRecording' = FALSE
    /\ outcome' = "none"
    /\ lastMsg' = NoMsg
    /\ calls' = <<Call("onClose", "", "")>>
    /\ CurrentSessionUntouched
    /\ UNCHANGED <<stopAsked, mounted>>

\* The 'ended' listener of a source that the close() of earlier session k stopped.
EarlierSourceEnded(k) ==
    /\ TaskMayStart
    /\ k \in DOMAIN earlier
    /\ earlier[k].toEnd > 0
    /\ earlier' = [earlier EXCEPT ![k] = After([@ EXCEPT !.toEnd = @ - 1])]
    /\ outcome' = "none"
    /\ lastMsg' = NoMsg
    /\ calls' = IF Idle(earlier[k].sources) THEN <<Call("onAIStopSpeaking", "", "")>> ELSE <<>>
    /\ CurrentSessionUntouched
    /\ UNCHANGED callerVars

AppNext ==
    \/ MicGranted
    \/ MicDenied
    \/ OnOpen
    \/ SessionResolved
    \/ ConnectFailed
    \/ StopSpeaking
    \/ Unmount
    \/ RemoteError
    \/ RemoteClose
    \/ AudioProcess
    \/ StartSpeaking
    \/ \E k \in 1..Len(earlier) : EarlierClosed(k)

AppSpec == Init /\ [][AppNext]_vars

\* The messages delivered to sessions run in sequence: a message with
\* turnComplete ends in the ReferenceError of line 287 having changed what the
\* same message without the flag changes, so those are left to Spec.
SessionsMessages == {m \in NextMessages : ~m.turnComplete}

\* The caller runs sessions one after the other, each receiving messages.
SessionsNext ==
    \/ MicGranted
    \/ ConnectOpened
    \/ \E m \in SessionsMessages : OnMessage(m)
    \/ ResumeMessage
    \/ \E i \in 1..Len(srcs) : SourceEnded(i)
    \/ StopSpeaking
    \/ StartSpeaking
    \/ \E k \in 1..Len(earlier) : EarlierClosed(k)
    \/ \E k \in 1..Len(earlier) : EarlierSourceEnded(k)

SessionsSpec == Init /\ [][SessionsNext]_vars

\* ------------------------------------------------------------------ the codec
\* The conversion of a number to an Int16Array element: the fraction is
\* dropped (towards zero), the integer is taken modulo 2^16 into
\* -32768 .. 32767.
Trunc(n, d) == IF n >= 0 THEN n \div d ELSE -((-n) \div d)
ToInt16(v) ==
    LET m == v % Int16Modulus
    IN  IF m >= Int16Modulus \div 2 THEN m - Int16Modulus ELSE m

\* int16[i] = data[i] * 32768, for data[i] = s / (Scale * Sub)
Int16OfSample(s) == ToInt16(Trunc(s, Sub))

\* new Uint8Array(int16.buffer): the two bytes of an element, low byte first
BytesOfInt16(v) == <<(v % Int16Modulus) % 256, (v % Int16Modulus) \div 256>>

\* btoa(String.fromCharCode(b1, b2)): three base64 digits (and one '=')
Btoa(b) == <<b[1] \div 4, (b[1] % 4) * 16 + b[2] \div 16, (b[2] % 16) * 4>>

\* decode: atob, then charCodeAt into a Uint8Array
Atob(d) == <<d[1] * 4 + d[2] \div 16, (d[2] % 16) * 16 + d[3] \div 4>>

\* new Int16Array(data.buffer): the element of two bytes, low byte first
Int16OfBytes(b) == ToInt16(b[1] + 256 * b[2])

\* channelData[i] = dataInt16[i] / 32768.0, in the units of sample
SampleOfInt16(v) == v * Sub

\* createBlob on a chunk holding the sample
CreateBlob ==
    /\ wire = <<>>
    /\ wire' = Btoa(BytesOfInt16(Int16OfSample(sample)))
    /\ UNCHANGED <<sample, decoded>>
    /\ UNCHANGED <<phase, resVars, conn, errored, clock, schedVars, textVars, msgVars, lastMsg,
                   outcome, calls, cbLog, callVars, callerVars, captureVars, earlier>>

\* decodeAudioData(decode(blob.data), ...)
DecodeAudioData ==
    /\ wire # <<>>
    /\ decoded = <<>>
    /\ decoded' = <<SampleOfInt16(Int16OfBytes(Atob(wire)))>>
    /\ UNCHANGED <<sample, wire>>
    /\ UNCHANGED <<phase, resVars, conn, errored, clock, schedVars, textVars, msgVars, lastMsg,
                   outcome, calls, cbLog, callVars, callerVars, captureVars, earlier>>

\* Every sample value of the grid, from -1.0 to 1.0.
Samples == (-(Scale * Sub))..(Scale * Sub)

CodecInit ==
    /\ SessionInit
    /\ sample \in Samples
    /\ wire = <<>>
    /\ decoded = <<>>

CodecNext ==
    \/ CreateBlob
    \/ DecodeAudioData

CodecSpec == CodecInit /\ [][CodecNext]_vars

\* ------------------------------------------------------------------ vocabulary
\* Everything the session acquired is released.
Released ==
    /\ conn \in {"closing", "closed"}
    /\ stream = "stopped"
    /\ inputAudioContext = "closed"
    /\ outputAudioContext = "closed"
    /\ sources = {}

\* This step created and started a source; New is that source after the step.
Enqueue == Len(srcs') = Len(srcs) + 1
New == srcs'[Len(srcs')]

\* This step started an onmessage call, given lastMsg'.
Begins == msgCount' = msgCount + 1

\* This step ran an onmessage call, given lastMsg', to its last statement.
Completes == outcome' = "done"

\* This step ended an onmessage call, given lastMsg', normally or by an exception.
Ends == outcome' \in {"done", "decodeError", "referenceError"}

\* The latest step ended an onmessage call.
HandlerEnded == outcome \in {"done", "decodeError", "referenceError"}

\* ------------------------------------------------------------------ C1
\* C1: whenever a started session has ended (close() was called, the remote
\* side closed, or the remote side reported an error), the connection is
\* closed, the microphone track is stopped, both audio contexts are closed and
\* the in-flight source set is empty.
C1_EndedSessionIsReleased ==
    (phase = "live" /\ (closeCalls # "never" \/ conn = "closed" \/ errored)) => Released

\* ------------------------------------------------------------------ C2
\* C2: however often close() is called, each resource is released exactly
\* once: session.close(), track.stop() and the two AudioContext.close() are
\* each called once.
C2_CloseReleasesOnce ==
    closeCalls # "never" =>
        /\ sessionCloseCalls = "once"
        /\ trackStopCalls = "once"
        /\ inCtxCloseCalls = "once"
        /\ outCtxCloseCalls = "once"

\* ------------------------------------------------------------------ C3
\* C3: when start fails after the microphone was acquired (the connection
\* could not be established), the microphone track is stopped and both audio
\* contexts are closed by the time the promise has rejected.
C3_FailedStartReleases ==
    (phase = "failed" /\ connectCalls > 0) =>
        /\ stream = "stopped"
        /\ inputAudioContext = "closed"
        /\ outputAudioContext = "closed"

\* ------------------------------------------------------------------ C4
\* C4: when microphone permission is denied, the promise rejects, the caller
\* has received exactly onError then onClose, and no connection was attempted.
C4_MicDeniedReportsOnce ==
    (stream = "none" /\ phase # "awaitMic") =>
        /\ phase = "failed"
        /\ cbLog = <<"onError", "onClose">>
        /\ connectCalls = 0
        /\ conn = "none"

C4_Witness == phase = "failed" /\ stream = "none" /\ Names(calls) = <<"onError", "onClose">>

\* ------------------------------------------------------------------ C5
\* C5: once the remote side has reported an error, the caller has received
\* onError exactly once, no reconnect was made, and the session is torn down:
\* connection closed, microphone stopped, capture callback detached, both
\* audio contexts closed.
C5_RemoteErrorTearsDown ==
    errored =>
        /\ Cardinality({k \in DOMAIN cbLog : cbLog[k] = "onError"}) = 1
        /\ connectCalls = 1
        /\ conn \in {"closing", "closed"}
        /\ stream = "stopped"
        /\ scriptProcessor = "detached"
        /\ inputAudioContext = "closed"
        /\ outputAudioContext = "closed"

\* ------------------------------------------------------------------ C6
\* C6: when the handling of a message carrying turnComplete has ended,
\* onTurnComplete was invoked exactly once in it, with the concatenation of
\* the input fragments of that turn, in arrival order.
C6_TurnCompleteDelivered ==
    (turnEnded /\ HandlerEnded) =>
        /\ Count(calls, "onTurnComplete") = 1
        /\ \A k \in DOMAIN calls : calls[k].cb = "onTurnComplete" => calls[k].a = turnInput

\* ------------------------------------------------------------------ C7
\* C7: when the handling of a message carrying turnComplete has ended, both
\* running transcripts are empty; and every onTranscriptionUpdate carries, as
\* its input text, only the fragments of the current turn.
C7_TranscriptsClearedAtTurnEnd ==
    /\ (turnEnded /\ HandlerEnded) =>
            currentInputTranscription = "" /\ currentOutputTranscription = ""
    /\ \A k \in DOMAIN calls :
            calls[k].cb = "onTranscriptionUpdate" => calls[k].a = turnInput

\* ------------------------------------------------------------------ C8
\* C8: the handling of a message appends its input fragment to the end of the
\* input running string and its output fragment to the end of the output
\* running string, leaves a running string without a fragment unchanged, and
\* calls onTranscriptionUpdate once per fragment, with both current strings.
C8_FragmentsAppended ==
    [][/\ Begins =>
            /\ currentInputTranscription' =
                   AppendFragment(currentInputTranscription, lastMsg'.inputTranscription)
            /\ lastMsg'.inputTranscription # NoText =>
                   calls'[1] = Call("onTranscriptionUpdate", currentInputTranscription',
                                    currentOutputTranscription)
       /\ Ends =>
            /\ currentOutputTranscription' =
                   AppendFragment(currentOutputTranscription, lastMsg'.outputTranscription)
            /\ ~Begins => currentInputTranscription' = currentInputTranscription
            /\ lastMsg'.outputTranscription # NoText =>
                   \E k \in DOMAIN calls' :
                       calls'[k] = Call("onTranscriptionUpdate", currentInputTranscription',
                                        currentOutputTranscription')
       /\ Count(calls', "onTranscriptionUpdate") =
              (IF Begins /\ lastMsg'.inputTranscription # NoText THEN 1 ELSE 0)
              + (IF Ends /\ lastMsg'.outputTranscription # NoText THEN 1 ELSE 0)
      ]_vars

\* ------------------------------------------------------------------ C9
\* C9 as stated: a source enqueued after another one, with no flush in
\* between, starts exactly at the end (start + duration) of that one.
C9_StartEqualsPreviousEnd ==
    [][(Enqueue /\ prevEnd # <<>>) => New.start = prevEnd[1]]_vars

\* C9 as amended: such a source starts at the later of the previous source's
\* end and the output clock's time at its enqueue; so it never overlaps the
\* previous source, and starts exactly at its end whenever the output clock
\* has not passed that end.
C9_StartIsPreviousEndOrNow ==
    [][(Enqueue /\ prevEnd # <<>>) =>
          /\ New.start = (IF prevEnd[1] > clock THEN prevEnd[1] ELSE clock)
          /\ New.start >= prevEnd[1]
          /\ clock <= prevEnd[1] => New.start = prevEnd[1]
          /\ prevEnd' \in {<<>>, <<New.start + New.dur>>}
      ]_vars

C9_Witness ==
    \E i \in DOMAIN srcs :
        /\ i + 1 \in DOMAIN srcs
        /\ srcs[i].st = "scheduled"
        /\ srcs[i + 1].st = "scheduled"
        /\ srcs[i + 1].start > srcs[i].start + srcs[i].dur
        /\ srcs[i + 1].start = clock

\* ------------------------------------------------------------------ C10
\* C10: a step that runs the interruption branch leaves the in-flight set
\* empty, every source that was in flight (one enqueued by the same message
\* included) stopped, and nextStartTime 0; and the first source enqueued after
\* a flush starts at the output clock's time at its enqueue.
C10_InterruptionFlushes ==
    [][/\ (Completes /\ lastMsg'.interrupted) =>
            /\ sources' = {}
            /\ nextStartTime' = 0
            /\ \A i \in sources : srcs'[i].st = "stopped"
            /\ Enqueue => New.st = "stopped"
            /\ Names(calls')[Len(calls')] = "onAIStopSpeaking"
       /\ (Enqueue /\ prevEnd = <<>>) => New.start = clock
      ]_vars

C10_Witness ==
    \E i, j \in DOMAIN srcs :
        /\ i < j
        /\ srcs[i].st = "stopped"
        /\ srcs[j].st = "scheduled"
        /\ sources = {j}
        /\ srcs[j].start = clock
        /\ srcs[i].start + srcs[i].dur > clock

\* ------------------------------------------------------------------ C11
\* C11: while an onmessage call is suspended at its await, the only step taken
\* is its own continuation: no other message's handling begins, the call ends
\* in that step, the clock has not moved since the start time was computed,
\* and a source the step creates starts at the nextStartTime computed before
\* the await (no interruption has reset it in between).
C11_HandlersDoNotInterleave ==
    [][pending =>
          /\ msgCount' = msgCount
          /\ lastMsg' = lastMsg
          /\ ~pending'
          /\ Ends
          /\ nextStartTime = StartTime(nextStartTime, clock)
          /\ Enqueue => (New.start = nextStartTime /\ New.start >= clock)
      ]_vars

C11_Witness ==
    /\ outcome = "done"
    /\ lastMsg.audio \notin {NoAudio, BadAudio}
    /\ lastMsg.interrupted
    /\ Len(srcs) = 2

\* ------------------------------------------------------------------ C12
\* C12: when the caller asked to stop (stopSpeaking, or unmount) while the
\* start was awaiting the microphone or the connection, and the start has
\* succeeded since, what it acquired is released: no session remains live.
C12_StopDuringStartUnwinds ==
    (stopAsked /\ phase = "live") => Released

\* ------------------------------------------------------------------ C13
\* C13: the chunks passed to session.sendRealtimeInput are, in capture order
\* and once each, the chunks captured so far, less those whose callback still
\* waits for the session promise; none is passed before that promise has
\* resolved, and a chunk captured before then is held, not lost.
C13_ChunksSentInCaptureOrder ==
    /\ sentChunks \o heldChunks = [k \in 1..produced |-> k]
    /\ sentChunks # <<>> => phase = "live"
    /\ heldChunks # <<>> => phase = "opened"
    /\ flushed <= Len(sentChunks)

C13_Witness ==
    /\ flushed = 1
    /\ sentChunks = <<1, 2>>

\* ------------------------------------------------------------------ C14
\* C14: a call of close(), also one in which a release step throws, leaves
\* the microphone track stopped, both audio contexts closed, the script
\* processor and the media source disconnected and no source in flight.
C14_CloseAttemptsEveryStep ==
    [][closeCalls' # closeCalls =>
          /\ stream' = "stopped"
          /\ inputAudioContext' = "closed"
          /\ outputAudioContext' = "closed"
          /\ scriptProcessor' = "detached"
          /\ mediaStreamSource' = "disconnected"
          /\ sources' = {}
      ]_vars

\* ------------------------------------------------------------------ C15
\* C15: when the handling of a message has ended by the decode of its audio
\* payload throwing, the caller has received onError exactly once in it and
\* the session is torn down.
C15_DecodeErrorSurfaced ==
    outcome = "decodeError" =>
        /\ Count(calls, "onError") = 1
        /\ Cardinality({k \in DOMAIN cbLog : cbLog[k] = "onError"}) >= 1
        /\ Released

\* ------------------------------------------------------------------ C16
\* C16: a step delivers onAIStartSpeaking exactly when it starts the handling
\* of a message with an audio fragment while no source is in flight (once,
\* then); a fragment arriving while sources are in flight delivers none.
C16_StartSpeakingOncePerBurst ==
    [][Count(calls', "onAIStartSpeaking") =
          (IF Begins /\ lastMsg'.audio # NoAudio /\ sources = {} THEN 1 ELSE 0)
      ]_vars

\* ------------------------------------------------------------------ C17
\* C17: decoding the encoding of a sample in [-1.0, 1.0] gives a value within
\* 1/32768 of the sample (Sub, in the units of sample).
C17_RoundTripWithinQuantum ==
    decoded # <<>> =>
        /\ decoded[1] - sample <= Sub
        /\ sample - decoded[1] <= Sub

\* ------------------------------------------------------------------ C18
\* C18: the handling of an audio fragment sets nextStartTime to the larger of
\* nextStartTime and the output clock; the source it creates starts at that
\* time, so not before the clock's time at its enqueue and not before the end
\* of the source enqueued before it since the last flush; the enqueue leaves
\* nextStartTime at start + duration and the source in the in-flight set
\* (unless the same message flushes them); and no two sources in flight
\* overlap.
C18_EnqueueAtMaxThenAdvance ==
    [][/\ (Begins /\ lastMsg'.audio # NoAudio) =>
            nextStartTime' = (IF nextStartTime > clock THEN nextStartTime ELSE clock)
       /\ Enqueue =>
            /\ New.start = nextStartTime
            /\ New.dur = lastMsg'.audio
            /\ New.start >= clock
            /\ prevEnd # <<>> => New.start >= prevEnd[1]
            /\ IF Completes /\ lastMsg'.interrupted
               THEN nextStartTime' = 0 /\ sources' = {}
               ELSE /\ nextStartTime' = New.start + New.dur
                    /\ sources' = sources \cup {Len(srcs')}
       /\ \A i, j \in sources' :
            i < j => srcs'[j].start >= srcs'[i].start + srcs'[i].dur
      ]_vars

C18_Witness ==
    /\ sources = {1, 2}
    /\ srcs[1].start = 1
    /\ srcs[2].start = srcs[1].start + srcs[1].dur
    /\ nextStartTime = srcs[2].start + srcs[2].dur

\* ------------------------------------------------------------------ C19
\* C19: a step in which a scheduled source completes takes it out of the
\* in-flight set and delivers onAIStopSpeaking, once, exactly if that leaves
\* the set empty; and any step that delivers onAIStopSpeaking leaves the
\* in-flight set empty.
C19_StopSpeakingOnlyWhenIdle ==
    [][/\ \A i \in DOMAIN srcs :
            (srcs[i].st = "scheduled" /\ ~srcs[i].ended /\ srcs'[i].ended) =>
                /\ clock >= srcs[i].start + srcs[i].dur
                /\ sources' = sources \ {i}
                /\ Count(calls', "onAIStopSpeaking") = (IF sources' = {} THEN 1 ELSE 0)
       /\ Count(calls', "onAIStopSpeaking") > 0 => sources' = {}
      ]_vars

C19_Witness ==
    /\ Len(srcs) = 2
    /\ srcs[1].ended
    /\ srcs[2].ended
    /\ sources = {}
    /\ prevEnd # <<>>
    /\ closeCalls = "never"
    /\ outcome = "none"
    /\ Names(calls) = <<"onAIStopSpeaking">>

\* ------------------------------------------------------------------ C20
\* C20: the caller receives onClose at most once, and no step delivers a
\* callback once onClose has been delivered.
C20_OnCloseOnceAndLast ==
    [][/\ Cardinality({k \in DOMAIN cbLog' : cbLog'[k] = "onClose"}) <= 1
       /\ (\E k \in DOMAIN cbLog : cbLog[k] = "onClose") => calls' = <<>>
      ]_vars

\* ------------------------------------------------------------------ C21
\* C21: once a session that was established is closed (close() has closed
\* the connection, the remote side has closed it, or it has reported an
\* error), no step captures
\* a chunk or passes one to session.sendRealtimeInput: the capture callback
\* is no longer attached and the microphone track is no longer live.
C21_NoCaptureAfterClosed ==
    [][(/\ phase = "live"
        /\ (conn \in {"closing", "closed"} \/ errored)) =>
          /\ produced' = produced
          /\ sentChunks' = sentChunks
          /\ scriptProcessor # "attached"
          /\ stream # "live"
      ]_vars

\* ------------------------------------------------------------------ C24
\* C24: the 'ended' event of a source that an interruption or close() stopped
\* produces no onAIStopSpeaking call: the interruption's own notification is
\* the only one.
C24_StoppedSourceEndsSilently ==
    [][\A i \in DOMAIN srcs :
          (/\ srcs[i].st = "stopped"
           /\ ~srcs[i].ended
           /\ i \in DOMAIN srcs'
           /\ srcs'[i].ended) =>
             Count(calls', "onAIStopSpeaking") = 0
      ]_vars

\* ------------------------------------------------------------------ C26
\* This step ran the interruption branch of onmessage (lines 310-319).
Interrupts == outcome' = "done" /\ lastMsg'.interrupted

\* This step belongs to the handling of a message that carries audio.
HandlesAudio == lastMsg' # NoMsg /\ lastMsg'.audio # NoAudio

\* C26: nextStartTime starts at 0; a step that lowers it is the handling of an
\* interruption signal, which sets it to 0; a step that changes it at all is
\* an interruption or the handling of an audio fragment, so messages without
\* audio (transcript fragments, turn-complete signals), source completions,
\* clock ticks and closing leave it unchanged.
C26_NextStartTimeMonotonic ==
    /\ nextStartTime = 0
    /\ [][/\ nextStartTime' < nextStartTime => Interrupts
          /\ Interrupts => nextStartTime' = 0
          /\ nextStartTime' # nextStartTime => Interrupts \/ HandlesAudio
        ]_vars

\* An interruption arrived after an earlier message had scheduled a source,
\* and reset nextStartTime.
C26_Witness ==
    /\ msgCount = 2
    /\ Len(srcs) = 1
    /\ lastMsg # NoMsg
    /\ lastMsg.interrupted
    /\ lastMsg.audio = NoAudio
    /\ outcome = "done"
    /\ nextStartTime = 0

\* ------------------------------------------------------------------ C23
\* The session has not been closed: the connection is open, has reported no
\* error, and close() has not been called.
NotClosed == phase = "live" /\ conn = "open" /\ ~errored /\ closeCalls = "never"

\* Some source has yet to fire 'ended': its listener (lines 269-274) is the
\* only code outside the interruption branch that calls onAIStopSpeaking.
StopStillOwed == \E i \in DOMAIN srcs : ~srcs[i].ended

\* C23: in a session that is not closed, every onAIStartSpeaking is followed
\* by an onAIStopSpeaking once the scheduled sources have ended. Stated on
\* finite runs: when the handling of an audio fragment (which called
\* onAIStartSpeaking) has ended, either that handler has already called
\* onAIStopSpeaking or some source has yet to fire 'ended', whose listener
\* will call it; otherwise nothing that is scheduled ever calls it.
C23_StartIsFollowedByStop ==
    (/\ NotClosed
     /\ HandlerEnded
     /\ lastMsg # NoMsg
     /\ lastMsg.audio # NoAudio) =>
        \/ Count(calls, "onAIStopSpeaking") > 0
        \/ StopStillOwed

\* ------------------------------------------------------------------ C22
\* The current session is running: established, its connection open and
\* without error, close() not called on it.
Running == NotClosed

\* C22: while the component is mounted, a running session is the one the
\* stored handle refers to and the Stop button is rendered for it, so that
\* stopSpeaking can stop it; callbacks of an earlier session that arrive late
\* do not clear the handle or the recording state.
C22_RunningSessionCanBeStopped ==
    (mounted /\ Running) => (liveSessionRef = "handle" /\ isRecording)

\* ------------------------------------------------------------------ C25
\* This step is startSpeaking starting the next session.
Starts == Len(earlier') = Len(earlier) + 1

\* The scheduler and transcript variables of the current session's closure.
Owned ==
    <<nextStartTime, sources, currentInputTranscription, currentOutputTranscription>>

====
